---- MODULE Spec2Model ----
(***************************************************************************)
(* Model of sequelize-migrator: the Migrator class (src/Migrator.js) and   *)
(* the migration SQL parser (src/migration-sql-parse.js).                   *)
(*                                                                         *)
(* Several callers run up() / down() against one PostgreSQL database.      *)
(* Every await of the async methods is one action, so that calls of        *)
(* different runs interleave exactly where the code yields.  The database, *)
(* the file system and the managed transaction of sequelize are the        *)
(* environment: every call into them either succeeds or rejects.           *)
(* ParseSpec is the parser called on its own with arbitrary arguments.     *)
(***************************************************************************)
EXTENDS Integers, Sequences, FiniteSets, TLC

(***************************************************************************)
(* Bounds of the model.                                                    *)
(***************************************************************************)
NumMigrations == 3      \* migration files that may exist in the directory
NumRuns == 2            \* callers that may have a call in flight
MaxCalls == 2           \* up()/down() calls made in one behaviour
MaxAmount == 2          \* largest optAmount passed to down()
MaxAbsent == 1          \* files missing from the directory at the start
MaxDefective == 1       \* files that lack the up or the down section
MaxApplied == 1         \* migrations applied before the start
MaxLen == 5             \* longest text handed to the parser on its own

Migrations == 1..NumMigrations   \* file names; lexical order is numeric order
Runs == 1..NumRuns
Amounts == -1..MaxAmount         \* optAmount: below, at and above 1

(***************************************************************************)
(* Values.                                                                 *)
(***************************************************************************)
Null == "null"                   \* JavaScript null, where a string is expected
NoError == "none"
kSchema == "app"                 \* options.schema of every Migrator
kSessionPath == "public"         \* search_path of a fresh database session
kOtherPath == "other"            \* search_path of a session that was given one

\* Text is a sequence of tokens; the delimiter is a three-token sequence.
kDefaultDelimiter == <<"NL", "DOWN", "NL">>
NoFile == <<"ENOENT">>
UpDownText == <<"up", "NL", "DOWN", "NL", "down">>
UpOnlyText == <<"up", "NL">>
DownOnlyText == <<"NL", "DOWN", "NL", "down">>
FileTexts == {UpDownText, UpOnlyText, DownOnlyText}

\* JavaScript values the parser may be handed: a string carries its text.
Str(t) == [type |-> "string", chars |-> t]
JsUndefined == [type |-> "undefined", chars |-> <<>>]
JsNull == [type |-> "null", chars |-> <<>>]
JsNumber == [type |-> "number", chars |-> <<>>]      \* a number other than 0

(***************************************************************************)
(* Pure helpers.                                                           *)
(***************************************************************************)
Range(s) == {s[i] : i \in 1..Len(s)}

Min(S) == CHOOSE x \in S : \A y \in S : x <= y

Max2(a, b) == IF a >= b THEN a ELSE b

RECURSIVE SortSet(_)
SortSet(S) == IF S = {} THEN <<>> ELSE <<Min(S)>> \o SortSet(S \ {Min(S)})

\* Array.prototype.sort on an array of distinct names.
Sort(s) == SortSet(Range(s))

RECURSIVE Reverse(_)
Reverse(s) == IF s = <<>> THEN <<>> ELSE Reverse(Tail(s)) \o <<Head(s)>>

\* Array.prototype.slice(-n) for n >= 1
SliceLast(s, n) == IF n >= Len(s) THEN s ELSE SubSeq(s, Len(s) - n + 1, Len(s))

Remove(s, x) == SelectSeq(s, LAMBDA y : y # x)

\* A bug: the text is cut at the last occurrence of the delimiter.
LastIndexOf(t, d) ==
    LET hits == {p \in 0..(Len(t) - Len(d)) :
                    \A i \in 1..Len(d) : t[p + i] = d[i]}
    IN IF hits = {} THEN -1 ELSE CHOOSE p \in hits : \A q \in hits : q <= p

\* String.prototype.indexOf: first position (from 0) of d in t, or -1
IndexOf(t, d) ==
    LET hits == {p \in 0..(Len(t) - Len(d)) :
                    \A i \in 1..Len(d) : t[p + i] = d[i]}
    IN IF hits = {} THEN -1 ELSE Min(hits)

\* !value
Falsy(v) == v.type \in {"undefined", "null"} \/ v = Str(<<>>)

\* String(value), as indexOf applies it to its argument
StringOf(v) == IF v.type = "string" THEN v.chars ELSE <<v.type>>

\* The exports object of the parser module: module.exports is assigned a new
\* value, so kDefaultDelimiter is no property of exports.
exports == [kDefaultDelimiter |-> JsUndefined]

ParseError(e) == [error |-> e, up |-> <<>>, down |-> <<>>, hasDown |-> FALSE]

\* module.exports = function(migrationSql, optDelimiter = kDefaultDelimiter):
\* {up, down}, where hasDown = FALSE stands for down: null
parse(migrationSql, optDelimiter) ==
    IF Falsy(migrationSql) THEN ParseError("emptySql")
    ELSE IF migrationSql.type # "string" THEN ParseError("notString")
    ELSE LET t == migrationSql.chars
             given == IF optDelimiter = JsUndefined
                      THEN Str(kDefaultDelimiter) ELSE optDelimiter
             delimiter == IF Falsy(given) THEN exports.kDefaultDelimiter ELSE given
             delimiterPosition == IndexOf(t, StringOf(delimiter))
         IN IF delimiterPosition >= 0
            THEN [error |-> NoError, up |-> SubSeq(t, 1, delimiterPosition),
                  down |-> SubSeq(t, delimiterPosition + 1, Len(t)),
                  hasDown |-> TRUE]
            ELSE [error |-> NoError, up |-> t, down |-> <<>>, hasDown |-> FALSE]

\* .then(migrationSqlParse) of parseMigration_: the text of the file alone
migrationSqlParse(t) == parse(Str(t), JsUndefined)

\* A bug: the elements of a that are in b.
difference_Intersection(a, b) == SelectSeq(a, LAMBDA x : x \in Range(b))

difference(a, b) == SelectSeq(a, LAMBDA x : x \notin Range(b))

(***************************************************************************)
(* State.                                                                  *)
(***************************************************************************)
VARIABLES
    files,          \* the migrations directory: name -> text of the file, or NoFile
    tableExists,    \* the ledger table has been created (model_.sync)
    ledger,         \* committed rows of the ledger table, by ascending id (names)
    schema,         \* committed effect of migration SQL: names whose up SQL is in force
    locks,          \* runs whose transaction holds the ACCESS EXCLUSIVE table lock
    inTx,           \* runs whose database session has a transaction open
    sessPath,       \* search_path of the database session each run uses
    inst,           \* the Migrator instance each run calls
    searchPath_,    \* this.searchPath_ of each Migrator instance
    pc,             \* the await each run is at
    op,             \* "up" or "down"
    amount,         \* optAmount of down()
    list,           \* pendingMigrations / migrationsToUndo
    idx,            \* position of the for-of loop in list
    result,         \* value the callback of the transaction returns
    txLedger,       \* ledger rows as the run's transaction sees them
    txSchema,       \* schema as the run's transaction sees it
    savePoint,      \* the savepoint "migrations" of the run's transaction
    finished,       \* transaction.finished: "none", "open", "commit", "rollback"
    path0,          \* search_path of the session when the transaction began
    error,          \* the error being thrown: the call rejects with it
    firstError,     \* the error raised by the step of the call that failed first
    snapshot,       \* the search_path the call read in saveSearchPath_
    before,         \* the committed ledger when the call was granted the lock
    sqlLog,         \* names whose SQL the call has executed, in order
    calls,          \* calls made so far
    clean,          \* no call so far was a down() and no step so far has failed
    upCount,        \* how often the up SQL of each migration has been executed
    chain,          \* position in a sequence of up() calls made in a row
    listing,        \* what the last migrationFiles() of each instance resolved with
    migrationSql,   \* first argument of a call of the parser on its own
    optDelimiter,   \* second argument of that call
    returned        \* what that call returned or threw

envVars == <<files, tableExists>>
dbVars == <<ledger, schema, locks, inTx, sessPath>>
callVars == <<op, amount, list, idx, result>>
txVars == <<txLedger, txSchema, savePoint, finished, path0>>
errVars == <<error, firstError, clean>>
obsVars == <<snapshot, before, sqlLog, calls, upCount, chain>>
parseVars == <<migrationSql, optDelimiter, returned>>
restVars == <<inst, listing, parseVars>>
migratorVars == <<files, tableExists, ledger, schema, locks, inTx, sessPath, inst,
                  searchPath_, pc, op, amount, list, idx, result, txLedger,
                  txSchema, savePoint, finished, path0, error, firstError, snapshot,
                  before, sqlLog, calls, clean, upCount, chain, listing>>
vars == <<migratorVars, parseVars>>

\* depth: savepoints named "migrations" the transaction holds; rolledBack: the
\* transaction was rolled back to the savepoint
NoSavePoint == [depth |-> 0, rolledBack |-> FALSE, ledger |-> <<>>, schema |-> {}]
NoListing == [read |-> FALSE, names |-> <<>>]
NotCalled == ParseError("notCalled")
NullResult == [isNull |-> TRUE, names |-> <<>>]
ArrayResult(names) == [isNull |-> FALSE, names |-> names]

Absent(f) == {m \in Migrations : f[m] = NoFile}
Defective(f) == {m \in Migrations : f[m] \notin {NoFile, UpDownText}}

\* Ledgers that earlier calls of up() can have left: distinct names of files
\* that have an up section, in any order.
RECURSIVE Arrangements(_, _)
Arrangements(S, n) ==
    IF n = 0 THEN {<<>>}
    ELSE {<<>>} \cup {<<m>> \o t : m \in S, t \in Arrangements(S, n - 1)}

Distinct(s) == \A i, j \in 1..Len(s) : s[i] = s[j] => i = j

Applicable(f) == {m \in Migrations : f[m] \in {UpDownText, UpOnlyText}}

\* No call of up() / down() has been made on any Migrator.
NoCallYet ==
    /\ tableExists = (ledger # <<>>)
    /\ schema = Range(ledger)
    /\ locks = {}
    /\ inTx = {}
    /\ searchPath_ = [i \in Runs |-> Null]
    /\ pc = [r \in Runs |-> "idle"]
    /\ op = [r \in Runs |-> "up"]
    /\ amount = [r \in Runs |-> 1]
    /\ list = [r \in Runs |-> <<>>]
    /\ idx = [r \in Runs |-> 1]
    /\ result = [r \in Runs |-> NullResult]
    /\ txLedger = [r \in Runs |-> <<>>]
    /\ txSchema = [r \in Runs |-> {}]
    /\ savePoint = [r \in Runs |-> NoSavePoint]
    /\ finished = [r \in Runs |-> "none"]
    /\ path0 = [r \in Runs |-> kSessionPath]
    /\ error = [r \in Runs |-> NoError]
    /\ firstError = [r \in Runs |-> NoError]
    /\ snapshot = [r \in Runs |-> Null]
    /\ before = [r \in Runs |-> <<>>]
    /\ sqlLog = [r \in Runs |-> <<>>]
    /\ calls = 0
    /\ clean = TRUE
    /\ upCount = [m \in Migrations |-> 0]
    /\ chain = "other"
    /\ listing = [i \in Runs |-> NoListing]

Init ==
    /\ files \in {f \in [Migrations -> FileTexts \cup {NoFile}] :
                    /\ Cardinality(Absent(f)) <= MaxAbsent
                    /\ Cardinality(Defective(f)) <= MaxDefective}
    /\ ledger \in {t \in Arrangements(Applicable(files), MaxApplied) : Distinct(t)}
    /\ NoCallYet
    /\ sessPath = [r \in Runs |-> kSessionPath]
    /\ inst = [r \in Runs |-> r]
    /\ migrationSql = JsUndefined
    /\ optDelimiter = JsUndefined
    /\ returned = NotCalled

(***************************************************************************)
(* Helpers of the actions.                                                 *)
(***************************************************************************)
Others(r) == Runs \ {r}

\* An awaited call rejects inside the callback of sequelize.transaction: the
\* error leaves the callback (the catch blocks of up / down rethrow it).
Throws(r, e) ==
    /\ pc' = [pc EXCEPT ![r] = "wrapCatch"]
    /\ error' = [error EXCEPT ![r] = e]
    /\ firstError' = [firstError EXCEPT ![r] = IF @ = NoError THEN e ELSE @]
    /\ clean' = FALSE

\* The promise of up() / down() settles; the locals of the call are gone.
Settles(r, how) ==
    /\ pc' = [pc EXCEPT ![r] = "idle"]
    /\ op' = [op EXCEPT ![r] = "up"]
    /\ amount' = [amount EXCEPT ![r] = 1]
    /\ list' = [list EXCEPT ![r] = <<>>]
    /\ idx' = [idx EXCEPT ![r] = 1]
    /\ result' = [result EXCEPT ![r] = NullResult]
    /\ txLedger' = [txLedger EXCEPT ![r] = <<>>]
    /\ txSchema' = [txSchema EXCEPT ![r] = {}]
    /\ savePoint' = [savePoint EXCEPT ![r] = NoSavePoint]
    /\ finished' = [finished EXCEPT ![r] = "none"]
    /\ path0' = [path0 EXCEPT ![r] = kSessionPath]
    /\ error' = [error EXCEPT ![r] = NoError]
    /\ firstError' = [firstError EXCEPT ![r] = NoError]
    /\ snapshot' = [snapshot EXCEPT ![r] = Null]
    /\ before' = [before EXCEPT ![r] = <<>>]
    /\ sqlLog' = [sqlLog EXCEPT ![r] = <<>>]
    /\ clean' = (clean /\ how = "resolved")
    /\ chain' = IF how = "resolved" /\ op[r] = "up" /\ chain \in {"up1", "up2"}
                THEN "ok" ELSE "other"

\* this.migrationFiles_ of Migrator i: null from the constructor, and no
\* statement assigns it afterwards
migrationFiles_(i) == NoListing

\* migrationFiles(): the field if it is set, else fs.readdir, the pattern
\* filter and sort()
migrationFiles(i) ==
    IF migrationFiles_(i).read
    THEN migrationFiles_(i).names
    ELSE SortSet({m \in Migrations : files[m] # NoFile})

\* model_.findAll ordered by id, inside the transaction of r
executed(r) == txLedger[r]

\* A bug: the last entries without the floor of 1 on the amount.
recentlyExecuted_NoMax(r, optAmount) == SliceLast(executed(r), optAmount)

\* A bug: the last entries by name instead of by id.
recentlyExecuted_ByName(r, optAmount) ==
    SliceLast(Sort(executed(r)), Max2(1, optAmount))

recentlyExecuted(r, optAmount) == SliceLast(executed(r), Max2(1, optAmount))

\* A bug: the executed migrations are not taken out.
pending_NoDifference(r) == Sort(migrationFiles(inst[r]))

\* A bug: the pending migrations in descending order.
pending_Descending(r) ==
    Reverse(Sort(difference(migrationFiles(inst[r]), executed(r))))

pending(r) == Sort(difference(migrationFiles(inst[r]), executed(r)))

Current(r) == list[r][idx[r]]

(***************************************************************************)
(* The environment adds a migration file to the directory.                 *)
(***************************************************************************)
AddFile(m, text) ==
    /\ files[m] = NoFile
    /\ Cardinality(Defective([files EXCEPT ![m] = text])) <= MaxDefective
    /\ files' = [files EXCEPT ![m] = text]
    /\ chain' = "other"
    /\ UNCHANGED <<tableExists, dbVars, restVars, searchPath_, pc, callVars, txVars,
                   errVars, snapshot, before, sqlLog, calls, upCount>>

(***************************************************************************)
(* up() and down() up to the computation of the set.                       *)
(***************************************************************************)
StartCall(r, o, n) ==
    /\ pc[r] = "idle"
    /\ calls < MaxCalls
    /\ calls' = calls + 1
    /\ pc' = [pc EXCEPT ![r] = "ensure"]
    /\ op' = [op EXCEPT ![r] = o]
    /\ amount' = [amount EXCEPT ![r] = n]
    /\ clean' = (clean /\ o = "up")
    /\ chain' = IF o = "up" /\ chain = "ok" THEN "up2"
                ELSE IF o = "up" /\ \A q \in Others(r) : pc[q] = "idle" THEN "up1"
                ELSE "other"
    /\ UNCHANGED <<envVars, dbVars, restVars, searchPath_, list, idx, result, txVars,
                   error, firstError, snapshot, before, sqlLog, upCount>>

CallUp(r) == StartCall(r, "up", 1)

CallDown(r, optAmount) == StartCall(r, "down", optAmount)

\* A bug: the transaction is opened without model_.sync().
EnsureTableExists_Skipped(r) ==
    /\ pc[r] = "ensure"
    /\ pc' = [pc EXCEPT ![r] = "begin"]
    /\ UNCHANGED <<envVars, dbVars, restVars, searchPath_, callVars, txVars, errVars,
                   obsVars>>

\* await this.ensureTableExists_(): outside the transaction
EnsureTableExists(r) ==
    /\ pc[r] = "ensure"
    /\ \E ok \in BOOLEAN :
        IF ok
        THEN /\ tableExists' = TRUE
             /\ pc' = [pc EXCEPT ![r] = "begin"]
             /\ UNCHANGED <<callVars, txVars, errVars, snapshot, before, sqlLog, chain>>
        ELSE /\ Settles(r, "rejected")
             /\ UNCHANGED tableExists
    /\ UNCHANGED <<files, dbVars, restVars, searchPath_, calls, upCount>>

\* this.sequelize_.transaction(callback): a session is taken and BEGIN sent
BeginTransaction(r) ==
    /\ pc[r] = "begin"
    /\ \E ok \in BOOLEAN :
        IF ok
        THEN /\ inTx' = inTx \cup {r}
             /\ finished' = [finished EXCEPT ![r] = "open"]
             /\ path0' = [path0 EXCEPT ![r] = sessPath[r]]
             /\ pc' = [pc EXCEPT ![r] = "lock"]
             /\ UNCHANGED <<callVars, txLedger, txSchema, savePoint, errVars,
                            snapshot, before, sqlLog, chain>>
        ELSE /\ Settles(r, "rejected")
             /\ UNCHANGED inTx
    /\ UNCHANGED <<envVars, ledger, schema, locks, sessPath, restVars, searchPath_,
                   calls, upCount>>

\* A bug: a lock mode that does not exclude other holders.
LockTable_NoWait(r) ==
    /\ pc[r] = "lock"
    /\ tableExists
    /\ locks' = locks \cup {r}
    /\ txLedger' = [txLedger EXCEPT ![r] = ledger]
    /\ txSchema' = [txSchema EXCEPT ![r] = schema]
    /\ before' = [before EXCEPT ![r] = ledger]
    /\ pc' = [pc EXCEPT ![r] = IF op[r] = "up" THEN "pending" ELSE "recent"]
    /\ UNCHANGED <<envVars, ledger, schema, inTx, sessPath, restVars, searchPath_,
                   callVars, savePoint, finished, path0, errVars, snapshot, sqlLog,
                   calls, upCount, chain>>

\* await this.lockTable_(transaction): LOCK TABLE ... IN ACCESS EXCLUSIVE MODE
\* is granted once no other transaction holds the lock.
LockTable(r) ==
    /\ pc[r] = "lock"
    /\ \E ok \in BOOLEAN :
        IF ok
        THEN /\ tableExists
             /\ locks = {}
             /\ locks' = locks \cup {r}
             /\ txLedger' = [txLedger EXCEPT ![r] = ledger]
             /\ txSchema' = [txSchema EXCEPT ![r] = schema]
             /\ before' = [before EXCEPT ![r] = ledger]
             /\ pc' = [pc EXCEPT ![r] = IF op[r] = "up" THEN "pending" ELSE "recent"]
             /\ UNCHANGED errVars
        ELSE /\ Throws(r, "lock")
             /\ UNCHANGED <<locks, txLedger, txSchema, before>>
    /\ UNCHANGED <<envVars, ledger, schema, inTx, sessPath, restVars, searchPath_,
                   callVars, savePoint, finished, path0, snapshot, sqlLog, calls,
                   upCount, chain>>

\* const pendingMigrations = await this.pending(transaction)
Pending(r) ==
    /\ pc[r] = "pending"
    /\ \E e \in {NoError, "readdir", "findAll"} :
        IF e = NoError
        THEN /\ list' = [list EXCEPT ![r] = pending(r)]
             /\ listing' = [listing EXCEPT ![inst[r]] =
                    [read |-> TRUE, names |-> migrationFiles(inst[r])]]
             /\ pc' = [pc EXCEPT ![r] =
                          IF Len(pending(r)) = 0 THEN "wrapCommit" ELSE "savePath"]
             /\ result' = [result EXCEPT ![r] = NullResult]   \* return null
             /\ UNCHANGED errVars
        ELSE /\ Throws(r, e)
             /\ UNCHANGED <<list, result, listing>>
    /\ UNCHANGED <<envVars, dbVars, inst, parseVars, searchPath_, op, amount, idx,
                   txVars, obsVars>>

\* A bug: nothing to undo is treated as an error.
RecentlyExecuted_EmptyIsError(r) ==
    /\ pc[r] = "recent"
    /\ IF Len(recentlyExecuted(r, amount[r])) = 0
       THEN /\ Throws(r, "nothingToUndo")
            /\ UNCHANGED <<list, result>>
       ELSE /\ list' = [list EXCEPT ![r] = Reverse(recentlyExecuted(r, amount[r]))]
            /\ pc' = [pc EXCEPT ![r] = "savePath"]
            /\ result' = [result EXCEPT ![r] = NullResult]
            /\ UNCHANGED errVars
    /\ UNCHANGED <<envVars, dbVars, restVars, searchPath_, op, amount, idx, txVars,
                   obsVars>>

\* const migrationsToUndo = await this.recentlyExecuted(optAmount, transaction),
\* then migrationsToUndo.reverse()
RecentlyExecuted(r) ==
    /\ pc[r] = "recent"
    /\ \E ok \in BOOLEAN :
        IF ok
        THEN /\ list' = [list EXCEPT ![r] = Reverse(recentlyExecuted(r, amount[r]))]
             /\ pc' = [pc EXCEPT ![r] =
                          IF Len(recentlyExecuted(r, amount[r])) = 0
                          THEN "wrapCommit" ELSE "savePath"]
             /\ result' = [result EXCEPT ![r] = NullResult]   \* return null
             /\ UNCHANGED errVars
        ELSE /\ Throws(r, "findAll")
             /\ UNCHANGED <<list, result>>
    /\ UNCHANGED <<envVars, dbVars, restVars, searchPath_, op, amount, idx, txVars,
                   obsVars>>

(***************************************************************************)
(* The search path guard.                                                  *)
(***************************************************************************)
\* A bug: a snapshot the Migrator holds already is kept.
SaveSearchPath_KeepOld(r) ==
    /\ pc[r] = "savePath"
    /\ searchPath_' = [searchPath_ EXCEPT ![inst[r]] =
            IF @ = Null THEN sessPath[r] ELSE @]
    /\ snapshot' = [snapshot EXCEPT ![r] = sessPath[r]]
    /\ pc' = [pc EXCEPT ![r] = IF op[r] = "up" THEN "setSchema" ELSE "parse"]
    /\ UNCHANGED <<envVars, dbVars, inst, listing, parseVars, callVars, txVars,
                   errVars, before, sqlLog, calls, upCount, chain>>

\* await this.saveSearchPath_(transaction): SHOW search_path
SaveSearchPath(r) ==
    /\ pc[r] = "savePath"
    /\ \E ok \in BOOLEAN :
        IF ok
        THEN /\ searchPath_' = [searchPath_ EXCEPT ![inst[r]] = sessPath[r]]
             /\ snapshot' = [snapshot EXCEPT ![r] = sessPath[r]]
             /\ pc' = [pc EXCEPT ![r] = IF op[r] = "up" THEN "setSchema" ELSE "parse"]
             /\ UNCHANGED errVars
        ELSE /\ Throws(r, "showPath")
             /\ UNCHANGED <<searchPath_, snapshot>>
    /\ UNCHANGED <<envVars, dbVars, restVars, callVars, txVars, before, sqlLog, calls,
                   upCount, chain>>

\* await this.setSearchPath_(this.schema_, transaction), in up() only
SetSchema(r) ==
    /\ pc[r] = "setSchema"
    /\ \E ok \in BOOLEAN :
        IF ok
        THEN /\ sessPath' = [sessPath EXCEPT ![r] = kSchema]
             /\ pc' = [pc EXCEPT ![r] = "parse"]
             /\ UNCHANGED errVars
        ELSE /\ Throws(r, "setPath")
             /\ UNCHANGED sessPath
    /\ UNCHANGED <<envVars, ledger, schema, locks, inTx, restVars, searchPath_, callVars,
                   txVars, obsVars>>

\* await this.setSearchPath_(this.searchPath_, transaction) after the loop:
\* no statement is sent when the field is null
RestoreSearchPath(r) ==
    /\ pc[r] = "restorePath"
    /\ \E ok \in BOOLEAN :
        IF ok
        THEN /\ sessPath' = [sessPath EXCEPT ![r] =
                    IF searchPath_[inst[r]] = Null THEN @ ELSE searchPath_[inst[r]]]
             /\ pc' = [pc EXCEPT ![r] = "clearPath"]
             /\ UNCHANGED errVars
        ELSE /\ searchPath_[inst[r]] # Null
             /\ Throws(r, "setPath")
             /\ UNCHANGED sessPath
    /\ UNCHANGED <<envVars, ledger, schema, locks, inTx, restVars, searchPath_, callVars,
                   txVars, obsVars>>

\* this.searchPath_ = null; return migrations.map(...)
ClearSearchPath(r) ==
    /\ pc[r] = "clearPath"
    /\ searchPath_' = [searchPath_ EXCEPT ![inst[r]] = Null]
    /\ result' = [result EXCEPT ![r] = ArrayResult(list[r])]
    /\ pc' = [pc EXCEPT ![r] = "wrapCommit"]
    /\ UNCHANGED <<envVars, dbVars, restVars, op, amount, list, idx, txVars, errVars,
                   obsVars>>

(***************************************************************************)
(* migrationsUp_ and migrationsDown_: one migration after the other.       *)
(***************************************************************************)
\* A bug: the section is not checked at all.
MissingSql_Unchecked(r, parsed) == FALSE

\* A bug: only the up section is checked.
MissingSql_UpOnly(r, parsed) == op[r] = "up" /\ parsed.up = <<>>

\* The SQL section the direction needs is missing: !sql
MissingSql(r, parsed) ==
    IF op[r] = "up" THEN parsed.up = <<>> ELSE ~parsed.hasDown

\* await this.parseMigration_(migration.name) and the check of the section
ParseMigration(r) ==
    /\ pc[r] = "parse"
    /\ \E ok \in BOOLEAN :
        LET text == files[Current(r)]
            parsed == migrationSqlParse(text)
        IN IF ~ok \/ text = NoFile
           THEN Throws(r, "readFile")
           ELSE IF parsed.error # NoError
           THEN Throws(r, parsed.error)
           ELSE IF MissingSql(r, parsed)
           THEN Throws(r, IF op[r] = "up" THEN "missingUp" ELSE "missingDown")
           ELSE /\ pc' = [pc EXCEPT ![r] = "savepoint"]
                /\ UNCHANGED errVars
    /\ UNCHANGED <<envVars, dbVars, restVars, searchPath_, callVars, txVars, obsVars>>

\* await this.savePoint_(transaction): outside the try block
SavePoint(r) ==
    /\ pc[r] = "savepoint"
    /\ \E ok \in BOOLEAN :
        IF ok
        THEN /\ savePoint' = [savePoint EXCEPT ![r] =
                    [depth |-> @.depth + 1, rolledBack |-> FALSE,
                     ledger |-> txLedger[r], schema |-> txSchema[r]]]
             /\ pc' = [pc EXCEPT ![r] = "sql"]
             /\ UNCHANGED errVars
        ELSE /\ Throws(r, "savepoint")
             /\ UNCHANGED savePoint
    /\ UNCHANGED <<envVars, dbVars, restVars, searchPath_, callVars, txLedger, txSchema,
                   finished, path0, obsVars>>

\* await this.sequelize_.query(sql, ...) inside the try block.  A failing
\* script may leave part of its effect in the transaction.
ExecSql(r) ==
    /\ pc[r] = "sql"
    /\ \E ok \in BOOLEAN :
        /\ txSchema' = [txSchema EXCEPT ![r] =
                IF op[r] = "up" THEN @ \cup {Current(r)} ELSE @ \ {Current(r)}]
        /\ IF ok
           THEN /\ upCount' = [upCount EXCEPT ![Current(r)] =
                       IF op[r] = "up" THEN @ + 1 ELSE @]
                /\ sqlLog' = [sqlLog EXCEPT ![r] = Append(@, Current(r))]
                /\ pc' = [pc EXCEPT ![r] = "release"]
                /\ UNCHANGED errVars
           ELSE /\ pc' = [pc EXCEPT ![r] = "rollbackSp"]
                /\ error' = [error EXCEPT ![r] = "sql"]
                /\ firstError' = [firstError EXCEPT ![r] = "sql"]
                /\ clean' = FALSE
                /\ UNCHANGED <<upCount, sqlLog>>
    /\ UNCHANGED <<envVars, dbVars, restVars, searchPath_, callVars, txLedger, savePoint,
                   finished, path0, snapshot, before, calls, chain>>

\* A bug: the catch commits without ROLLBACK TO SAVEPOINT.
RollbackToSavePoint_Skipped(r) ==
    /\ pc[r] = "rollbackSp"
    /\ pc' = [pc EXCEPT ![r] = "failCommit"]
    /\ UNCHANGED <<envVars, dbVars, restVars, searchPath_, callVars, txVars, errVars,
                   obsVars>>

\* catch (error) { await this.rollbackToSavePoint_(transaction); ...
RollbackToSavePoint(r) ==
    /\ pc[r] = "rollbackSp"
    /\ \E ok \in BOOLEAN :
        IF ok
        THEN /\ txLedger' = [txLedger EXCEPT ![r] = savePoint[r].ledger]
             /\ txSchema' = [txSchema EXCEPT ![r] = savePoint[r].schema]
             /\ savePoint' = [savePoint EXCEPT ![r].rolledBack = TRUE]
             /\ pc' = [pc EXCEPT ![r] = "failCommit"]
             /\ UNCHANGED errVars
        ELSE /\ Throws(r, "rollbackSp")
             /\ UNCHANGED <<txLedger, txSchema, savePoint>>
    /\ UNCHANGED <<envVars, dbVars, restVars, searchPath_, callVars, finished, path0,
                   obsVars>>

\* A bug: the partial work is not committed before the error is rethrown.
FailCommit_NoCommit(r) ==
    /\ pc[r] = "failCommit"
    /\ pc' = [pc EXCEPT ![r] = "wrapCatch"]
    /\ UNCHANGED <<envVars, dbVars, restVars, searchPath_, callVars, txVars, errVars,
                   obsVars>>

\* ... await transaction.commit(); throw error; }
\* commit() marks the transaction finished whether or not COMMIT succeeds.
FailCommit(r) ==
    /\ pc[r] = "failCommit"
    /\ \E ok \in BOOLEAN :
        IF ok
        THEN /\ ledger' = txLedger[r]
             /\ schema' = txSchema[r]
             /\ pc' = [pc EXCEPT ![r] = "wrapCatch"]
             /\ UNCHANGED <<sessPath, errVars>>
        ELSE /\ sessPath' = [sessPath EXCEPT ![r] = path0[r]]
             /\ Throws(r, "commit")
             /\ UNCHANGED <<ledger, schema>>
    /\ locks' = locks \ {r}
    /\ inTx' = inTx \ {r}
    /\ finished' = [finished EXCEPT ![r] = "commit"]
    /\ savePoint' = [savePoint EXCEPT ![r] = NoSavePoint]
    /\ UNCHANGED <<envVars, restVars, searchPath_, callVars, txLedger, txSchema, path0,
                   obsVars>>

\* A bug: the loop goes on without RELEASE SAVEPOINT.
ReleaseSavePoint_Kept(r) ==
    /\ pc[r] = "release"
    /\ pc' = [pc EXCEPT ![r] = IF op[r] = "up" THEN "save" ELSE "destroy"]
    /\ UNCHANGED <<envVars, dbVars, restVars, searchPath_, callVars, txVars, errVars,
                   obsVars>>

\* await this.releaseSavePoint_(transaction)
ReleaseSavePoint(r) ==
    /\ pc[r] = "release"
    /\ \E ok \in BOOLEAN :
        IF ok
        THEN /\ savePoint' = [savePoint EXCEPT ![r] =
                    [NoSavePoint EXCEPT !.depth = savePoint[r].depth - 1]]
             /\ pc' = [pc EXCEPT ![r] = IF op[r] = "up" THEN "save" ELSE "destroy"]
             /\ UNCHANGED errVars
        ELSE /\ Throws(r, "release")
             /\ UNCHANGED savePoint
    /\ UNCHANGED <<envVars, dbVars, restVars, searchPath_, callVars, txLedger, txSchema,
                   finished, path0, obsVars>>

\* The for-of loop moves on, or migrationsUp_ / migrationsDown_ returns.
NextMigration(r) ==
    /\ idx' = [idx EXCEPT ![r] = @ + 1]
    /\ pc' = [pc EXCEPT ![r] = IF idx[r] = Len(list[r]) THEN "restorePath" ELSE "parse"]

\* await migration.save({transaction}): INSERT; name is unique
Save(r) ==
    /\ pc[r] = "save"
    /\ \E ok \in BOOLEAN :
        IF ok /\ Current(r) \notin Range(txLedger[r])
        THEN /\ txLedger' = [txLedger EXCEPT ![r] = Append(@, Current(r))]
             /\ NextMigration(r)
             /\ UNCHANGED errVars
        ELSE /\ Throws(r, IF ok THEN "unique" ELSE "save")
             /\ UNCHANGED <<txLedger, idx>>
    /\ UNCHANGED <<envVars, dbVars, restVars, searchPath_, op, amount, list, result,
                   txSchema, savePoint, finished, path0, obsVars>>

\* await migration.destroy({transaction}): DELETE by id
Destroy(r) ==
    /\ pc[r] = "destroy"
    /\ \E ok \in BOOLEAN :
        IF ok
        THEN /\ txLedger' = [txLedger EXCEPT ![r] = Remove(@, Current(r))]
             /\ NextMigration(r)
             /\ UNCHANGED errVars
        ELSE /\ Throws(r, "destroy")
             /\ UNCHANGED <<txLedger, idx>>
    /\ UNCHANGED <<envVars, dbVars, restVars, searchPath_, op, amount, list, result,
                   txSchema, savePoint, finished, path0, obsVars>>

(***************************************************************************)
(* The managed transaction of sequelize: it commits when the callback      *)
(* resolves, and when the callback rejects it rolls back unless the        *)
(* transaction is finished already; it rejects with the callback's error.  *)
(***************************************************************************)
\* A bug: the call resolves without COMMIT, its session keeps the lock.
WrapCommit_LockKept(r) ==
    /\ pc[r] = "wrapCommit"
    /\ Settles(r, "resolved")
    /\ UNCHANGED <<envVars, dbVars, restVars, searchPath_, calls, upCount>>

\* The callback resolved: transaction.commit(), then the call resolves.  A
\* failed COMMIT ends the transaction without its effects and goes to the catch.
WrapCommit(r) ==
    /\ pc[r] = "wrapCommit"
    /\ \E ok \in BOOLEAN :
        IF ok
        THEN /\ ledger' = txLedger[r]
             /\ schema' = txSchema[r]
             /\ Settles(r, "resolved")
             /\ UNCHANGED sessPath
        ELSE /\ sessPath' = [sessPath EXCEPT ![r] = path0[r]]
             /\ Throws(r, "commit")
             /\ finished' = [finished EXCEPT ![r] = "commit"]
             /\ UNCHANGED <<ledger, schema, callVars, txLedger, txSchema, savePoint,
                            path0, snapshot, before, sqlLog, chain>>
    /\ locks' = locks \ {r}
    /\ inTx' = inTx \ {r}
    /\ UNCHANGED <<envVars, restVars, searchPath_, calls, upCount>>

\* A bug the rollback guards against: the rejection is passed on with the
\* transaction left as it is.
WrapCatch_NoRollback(r) ==
    /\ pc[r] = "wrapCatch"
    /\ Settles(r, "rejected")
    /\ UNCHANGED <<envVars, dbVars, restVars, searchPath_, calls, upCount>>

\* The callback rejected: rollback unless finished, then the call rejects.
WrapCatch(r) ==
    /\ pc[r] = "wrapCatch"
    /\ IF finished[r] = "open"
       THEN /\ sessPath' = [sessPath EXCEPT ![r] = path0[r]]
            /\ locks' = locks \ {r}
            /\ inTx' = inTx \ {r}
       ELSE UNCHANGED <<sessPath, locks, inTx>>
    /\ Settles(r, "rejected")
    /\ UNCHANGED <<envVars, ledger, schema, restVars, searchPath_, calls, upCount>>

(***************************************************************************)
(* The specification.                                                      *)
(***************************************************************************)
Next ==
    \/ \E m \in Migrations, text \in FileTexts : AddFile(m, text)
    \/ \E r \in Runs : CallUp(r)
    \/ \E r \in Runs, n \in Amounts : CallDown(r, n)
    \/ \E r \in Runs : EnsureTableExists(r)
    \/ \E r \in Runs : BeginTransaction(r)
    \/ \E r \in Runs : LockTable(r)
    \/ \E r \in Runs : Pending(r)
    \/ \E r \in Runs : RecentlyExecuted(r)
    \/ \E r \in Runs : SaveSearchPath(r)
    \/ \E r \in Runs : SetSchema(r)
    \/ \E r \in Runs : ParseMigration(r)
    \/ \E r \in Runs : SavePoint(r)
    \/ \E r \in Runs : ExecSql(r)
    \/ \E r \in Runs : RollbackToSavePoint(r)
    \/ \E r \in Runs : FailCommit(r)
    \/ \E r \in Runs : ReleaseSavePoint(r)
    \/ \E r \in Runs : Save(r)
    \/ \E r \in Runs : Destroy(r)
    \/ \E r \in Runs : RestoreSearchPath(r)
    \/ \E r \in Runs : ClearSearchPath(r)
    \/ \E r \in Runs : WrapCommit(r)
    \/ \E r \in Runs : WrapCatch(r)

Spec == Init /\ [][Next]_vars

(***************************************************************************)
(* Progress.  Every call into the database or the file system returns, so  *)
(* a call that is past its entry and not waiting for the lock takes its    *)
(* next step; PostgreSQL grants a lock that is requested and free again    *)
(* and again.  That LOCK TABLE fails instead is possible but not forced.   *)
(***************************************************************************)
\* The steps of the call of r other than the entry and the lock request.
Returns(r) ==
    \/ EnsureTableExists(r)
    \/ BeginTransaction(r)
    \/ Pending(r)
    \/ RecentlyExecuted(r)
    \/ SaveSearchPath(r)
    \/ SetSchema(r)
    \/ ParseMigration(r)
    \/ SavePoint(r)
    \/ ExecSql(r)
    \/ RollbackToSavePoint(r)
    \/ FailCommit(r)
    \/ ReleaseSavePoint(r)
    \/ Save(r)
    \/ Destroy(r)
    \/ RestoreSearchPath(r)
    \/ ClearSearchPath(r)
    \/ WrapCommit(r)
    \/ WrapCatch(r)

\* LOCK TABLE of r is granted.
LockGranted(r) == LockTable(r) /\ r \in locks'

Fairness ==
    \A r \in Runs : WF_vars(Returns(r)) /\ SF_vars(LockGranted(r))

\* A directory with a full migration, which is applied, one without down SQL
\* and room for a third.
LiveInit ==
    /\ files = [m \in Migrations |->
                    IF m = 1 THEN UpDownText ELSE IF m = 2 THEN UpOnlyText ELSE NoFile]
    /\ ledger = <<1>>
    /\ NoCallYet
    /\ sessPath = [r \in Runs |-> kSessionPath]
    /\ inst = [r \in Runs |-> r]
    /\ migrationSql = JsUndefined
    /\ optDelimiter = JsUndefined
    /\ returned = NotCalled

LiveSpec == LiveInit /\ [][Next]_vars /\ Fairness

(***************************************************************************)
(* All callers share one Migrator, and with it the field this.searchPath_; *)
(* their database sessions differ in the search path.                      *)
(***************************************************************************)
SharedInit ==
    /\ files \in {f \in [Migrations -> FileTexts \cup {NoFile}] :
                    /\ Cardinality(Absent(f)) <= MaxAbsent
                    /\ Cardinality(Defective(f)) <= MaxDefective}
    /\ ledger \in {t \in Arrangements(Applicable(files), MaxApplied) : Distinct(t)}
    /\ NoCallYet
    /\ sessPath = [r \in Runs |-> IF r = 1 THEN kSessionPath ELSE kOtherPath]
    /\ inst = [r \in Runs |-> 1]
    /\ migrationSql = JsUndefined
    /\ optDelimiter = JsUndefined
    /\ returned = NotCalled

SharedSpec == SharedInit /\ [][Next]_vars

(***************************************************************************)
(* The parser called on its own, as its tests call it: every text of at    *)
(* most MaxLen characters or a value that is no text, with a delimiter     *)
(* given or left out.                                                      *)
(***************************************************************************)
Chars == {"NL", "DOWN", " "}

RECURSIVE Texts(_)
Texts(n) ==
    IF n = 0 THEN {<<>>}
    ELSE Texts(n - 1) \cup {Append(t, c) : t \in Texts(n - 1), c \in Chars}

Delimiters == {<<"DOWN">>, <<" ", "DOWN">>, kDefaultDelimiter}

ParseInit ==
    /\ files = [m \in Migrations |-> UpDownText]
    /\ ledger = <<>>
    /\ NoCallYet
    /\ sessPath = [r \in Runs |-> kSessionPath]
    /\ inst = [r \in Runs |-> r]
    /\ migrationSql \in {JsUndefined, JsNull, JsNumber} \cup {Str(t) : t \in Texts(MaxLen)}
    /\ optDelimiter \in {JsUndefined, JsNull, Str(<<>>)} \cup {Str(d) : d \in Delimiters}
    /\ returned = NotCalled

\* parse(migrationSql, optDelimiter), or parse(migrationSql) when the second
\* argument is undefined
CallParse ==
    /\ returned = NotCalled
    /\ returned' = parse(migrationSql, optDelimiter)
    /\ UNCHANGED <<migratorVars, migrationSql, optDelimiter>>

ParseNext == CallParse

ParseSpec == ParseInit /\ [][ParseNext]_vars

(***************************************************************************)
(* Properties.                                                             *)
(***************************************************************************)
Active(r) == pc[r] # "idle"

\* The ledger a call has to leave when its first idx[r] - 1 items were done.
DoneItems(r) == SubSeq(list[r], 1, idx[r] - 1)

LedgerWithDone(r) ==
    IF op[r] = "up"
    THEN before[r] \o DoneItems(r)
    ELSE SelectSeq(before[r], LAMBDA m : m \notin Range(DoneItems(r)))

\* C1: when the up SQL of item k+1 of an up() run fails (and the run rejects
\* with that error), the commit on the failure path leaves the ledger as it
\* was before the run plus the k items done, in order, and without item k+1
\* and the later pending items.
C1_PartialFailureDurability ==
    [][\A r \in Runs :
        (pc[r] = "failCommit" /\ op[r] = "up" /\ pc'[r] = "wrapCatch"
            /\ error'[r] = "sql")
        => /\ ledger' = before[r] \o DoneItems(r)
           /\ \A j \in idx[r]..Len(list[r]) : list[r][j] \notin Range(ledger')]_vars

\* Three pending migrations, the second failed, the first is in the ledger.
C1_Witness ==
    \E r \in Runs :
        /\ pc[r] = "wrapCatch" /\ op[r] = "up" /\ error[r] = "sql"
        /\ finished[r] = "commit"
        /\ Len(list[r]) = 3 /\ idx[r] = 2
        /\ ledger = <<list[r][1]>>

\* C2: at most one run holds the exclusive lock, and a run that is about to
\* read the ledger for its pending / recent set or to insert or delete a
\* ledger row holds the lock, inside its transaction.
C2_LockSerializes ==
    /\ Cardinality(locks) <= 1
    /\ \A r \in Runs :
        pc[r] \in {"pending", "recent", "save", "destroy"}
            => r \in locks /\ r \in inTx

\* One run is about to insert a row while another waits for the lock.
C2_Witness ==
    \E r, q \in Runs :
        /\ r # q
        /\ pc[r] = "save" /\ r \in locks
        /\ pc[q] = "lock" /\ q \in inTx

\* C3: the ledger never holds a name twice, and while only up() calls were
\* made and no step failed, no up SQL was executed twice and every migration
\* of a finished loop was executed once.
C3_AppliedOnce ==
    /\ Distinct(ledger)
    /\ clean => \A m \in Migrations : upCount[m] <= 1
    /\ clean => \A r \in Runs :
            pc[r] = "wrapCommit"
                => \A m \in Range(list[r]) :
                      upCount[m] = 1 /\ m \in Range(txLedger[r])

\* Two up() calls overlap: one has applied two migrations, the other waits.
C3_Witness ==
    \E r, q \in Runs :
        /\ r # q /\ clean
        /\ pc[r] = "wrapCommit" /\ op[r] = "up" /\ Len(list[r]) >= 2
        /\ pc[q] = "lock" /\ op[q] = "up"

\* C4: the second of two up() calls made in a row, with no file added in
\* between, executes no SQL, adds no ledger row and returns the empty list.
C4_SecondUpReturnsEmptyList ==
    \A r \in Runs :
        (chain = "up2" /\ Active(r))
        => /\ sqlLog[r] = <<>>
           /\ r \in locks => txLedger[r] = before[r]
           /\ pc[r] = "wrapCommit" => result[r] = ArrayResult(<<>>)

\* C5: a call that took the search path snapshot ends with the session's
\* search path equal to the snapshot.
C5_SearchPathRestored ==
    [][\A r \in Runs :
        (pc[r] \in {"wrapCommit", "wrapCatch"} /\ pc'[r] = "idle"
            /\ snapshot[r] # Null)
        => sessPath'[r] = snapshot[r]]_vars

\* C6: a call that has ended has no transaction open and holds no lock.
C6_NoOpenTransaction ==
    \A r \in Runs : pc[r] = "idle" => r \notin inTx /\ r \notin locks

\* All calls were made and have ended, and some step had failed.
C6_Witness ==
    /\ calls = MaxCalls
    /\ ~clean
    /\ \A r \in Runs : pc[r] = "idle"

\* C7: a call rejects with the error of the step that failed first.
C7_OriginalError ==
    \A r \in Runs : pc[r] = "wrapCatch" => error[r] = firstError[r]

\* Failures of item k+1 that C8 names.
ItemFailures == {"sql", "missingUp", "missingDown", "readFile", "save", "destroy"}

\* C8: when item k+1 fails for any of these causes, the k items done before
\* it are committed.
C8_EarlierWorkCommitted ==
    \A r \in Runs :
        (pc[r] = "wrapCatch" /\ idx[r] > 1 /\ firstError[r] \in ItemFailures
            /\ error[r] = firstError[r])
        => finished[r] = "commit" /\ txLedger[r] = LedgerWithDone(r)

NoDownSection(m) == ~migrationSqlParse(files[m]).hasDown

LastApplied(r, n) == Reverse(SubSeq(before[r], Len(before[r]) - n + 1, Len(before[r])))

\* C10: a down(n) that resolves on a ledger of at least n entries has run the
\* down SQL of the n entries of highest id, most recent first, returns
\* their names in that order and removes exactly them from the ledger.
C10_DownRevertsMostRecent ==
    [][\A r \in Runs :
        (pc[r] = "wrapCommit" /\ pc'[r] = "idle" /\ op[r] = "down"
            /\ amount[r] >= 1 /\ Len(before[r]) >= amount[r])
        => /\ sqlLog[r] = LastApplied(r, amount[r])
           /\ result[r] = ArrayResult(LastApplied(r, amount[r]))
           /\ ledger' = SubSeq(before[r], 1, Len(before[r]) - amount[r])]_vars

\* down(2) is about to resolve on a ledger whose applied order is not the
\* lexical order; one entry stays.
C10_Witness ==
    \E r \in Runs :
        /\ pc[r] = "wrapCommit" /\ op[r] = "down" /\ amount[r] = 2
        /\ Len(before[r]) = 3 /\ before[r] # Sort(before[r])
        /\ Len(sqlLog[r]) = 2

IsAscending(s) == \A i, j \in 1..Len(s) : i < j => s[i] < s[j]

IsSubsequence(s, t) == s = SelectSeq(t, LAMBDA x : x \in Range(s))

\* C11: an up() that resolves with pending migrations has executed their up
\* SQL one after the other in ascending order, appends exactly them, in
\* that order, to the ledger, and returns that list; of the directory as
\* the call listed it, nothing is pending afterwards.
C11_UpAppliesPendingInOrder ==
    [][\A r \in Runs :
        (pc[r] = "wrapCommit" /\ pc'[r] = "idle" /\ op[r] = "up" /\ list[r] # <<>>)
        => /\ IsAscending(list[r])
           /\ Range(list[r]) = Range(listing[inst[r]].names) \ Range(before[r])
           /\ sqlLog[r] = list[r]
           /\ ledger' = before[r] \o list[r]
           /\ result[r] = ArrayResult(list[r])
           /\ difference(listing[inst[r]].names, ledger') = <<>>]_vars

\* Two migrations were pending behind an applied one of a later name; both
\* were executed.
C11_Witness ==
    \E r \in Runs :
        /\ pc[r] = "wrapCommit" /\ op[r] = "up"
        /\ Len(list[r]) = 2 /\ Len(sqlLog[r]) = 2
        /\ before[r] # <<>> /\ before[r][1] > list[r][1]

\* C12: pending() returns names of migrationFiles() only, none of them
\* executed, in ascending order and in the order migrationFiles() has them,
\* and leaves out no name of migrationFiles() that is not executed.
C12_PendingIsCatalogMinusLedger ==
    \A r \in Runs :
        pc[r] = "pending"
        => LET p == pending(r)
               catalog == migrationFiles(inst[r])
           IN /\ Range(p) \subseteq Range(catalog)
              /\ Range(p) \cap Range(executed(r)) = {}
              /\ IsAscending(p)
              /\ IsSubsequence(p, catalog)
              /\ Range(catalog) \ Range(executed(r)) \subseteq Range(p)

\* The ledger holds two names out of lexical order and one file is pending.
C12_Witness ==
    \E r \in Runs :
        /\ pc[r] = "pending"
        /\ Len(executed(r)) = 2 /\ ~IsAscending(executed(r))
        /\ Len(pending(r)) = 1

\* C13: once a migrationFiles() of a Migrator has resolved, every later
\* migrationFiles() of that Migrator resolves with the same list.
C13_DirectoryReadOnce ==
    [][\A r \in Runs :
        (pc[r] = "pending" /\ pc'[r] \in {"savePath", "wrapCommit"}
            /\ listing[inst[r]].read)
        => listing'[inst[r]] = listing[inst[r]]]_vars

\* The delimiter d stands in text t at position p (from 0).
OccursAt(t, d, p) == p + Len(d) <= Len(t) /\ SubSeq(t, p + 1, p + Len(d)) = d

\* C14: the parser, called with a delimiter d or with the default one,
\* throws for a text that is absent, empty or no string; for any other text
\* it returns the whole text as up and no down when d does not occur in it,
\* and else cuts the text at the first occurrence of d, the delimiter
\* going to down, so that up followed by down is the text.
C14_SplitAtFirstDelimiter ==
    (returned # NotCalled /\ (~Falsy(optDelimiter) \/ optDelimiter = JsUndefined))
    => LET t == migrationSql.chars
           d == IF optDelimiter = JsUndefined
                THEN kDefaultDelimiter ELSE optDelimiter.chars
           places == {p \in 0..Len(t) : OccursAt(t, d, p)}
       IN IF migrationSql.type # "string" \/ t = <<>>
          THEN returned.error \in {"emptySql", "notString"}
          ELSE /\ returned.error = NoError
               /\ places = {} => returned.up = t /\ ~returned.hasDown
               /\ places # {}
                    => /\ returned.hasDown
                       /\ Len(returned.up) \in places
                       /\ \A p \in places : Len(returned.up) <= p
                       /\ returned.up = SubSeq(t, 1, Len(returned.up))
                       /\ returned.down = SubSeq(t, Len(returned.up) + 1, Len(t))
                       /\ returned.up \o returned.down = t
               /\ t = <<" ">> => returned.up = <<" ">> /\ ~returned.hasDown

\* The delimiter occurs twice in the text, after some up SQL.
C14_Witness ==
    /\ returned # NotCalled /\ returned.hasDown /\ returned.up # <<>>
    /\ optDelimiter = Str(<<"DOWN">>)
    /\ \E p \in 0..Len(migrationSql.chars) :
          /\ p > Len(returned.up)
          /\ OccursAt(migrationSql.chars, <<"DOWN">>, p)

\* The last n names of s.
Suffix(s, n) == SubSeq(s, Len(s) - n + 1, Len(s))

\* C15: recentlyExecuted(n) is the suffix of executed() of length
\* min(max(1, n), size of the ledger), by ascending id, and the ledger is
\* as it was: down() reverses that suffix.
C15_RecentIsSuffix ==
    [][\A r \in Runs :
        (pc[r] = "recent" /\ pc'[r] \in {"savePath", "wrapCommit"})
        => LET n == Min({Max2(1, amount[r]), Len(executed(r))})
           IN /\ recentlyExecuted(r, amount[r]) = Suffix(executed(r), n)
              /\ Len(recentlyExecuted(r, amount[r])) = n
              /\ list'[r] = Reverse(Suffix(executed(r), n))
              /\ ledger' = ledger
              /\ txLedger' = txLedger]_vars

\* down() was called with an amount below 1 on a ledger of two names that
\* are out of lexical order: one name was selected.
C15_Witness ==
    \E r \in Runs :
        /\ pc[r] = "savePath" /\ op[r] = "down" /\ amount[r] < 1
        /\ Len(txLedger[r]) = 2 /\ ~IsAscending(txLedger[r])
        /\ list[r] = <<txLedger[r][2]>>

\* C16: in a down() the session's search path is the configured schema
\* when the first down SQL is executed.
C16_DownSwitchesToSchema ==
    \A r \in Runs :
        (op[r] = "down" /\ pc[r] = "sql" /\ idx[r] = 1)
        => snapshot[r] # Null /\ sessPath[r] = kSchema

\* Steps of the loop over the migrations.
LoopSteps == {"parse", "savepoint", "sql", "rollbackSp", "release", "save", "destroy"}

\* C17: a step of the loop changes the ledger only by inserting the current
\* migration of an up(), or deleting the current migration of a down(),
\* after the SQL of that migration has succeeded in this run and with its
\* savepoint released.
C17_LedgerWriteAfterSql ==
    [][\A r \in Runs :
        (pc[r] \in LoopSteps /\ txLedger'[r] # txLedger[r])
        => /\ sqlLog[r] # <<>> /\ sqlLog[r][Len(sqlLog[r])] = Current(r)
           /\ Len(sqlLog[r]) = idx[r]
           /\ savePoint[r].depth = 0
           /\ txLedger'[r] = IF op[r] = "up"
                             THEN Append(txLedger[r], Current(r))
                             ELSE Remove(txLedger[r], Current(r))
           /\ (op[r] = "up") = (Current(r) \in txSchema[r])]_vars

\* The second migration of a down() is about to be deleted from the ledger.
C17_Witness ==
    \E r \in Runs :
        /\ pc[r] = "destroy" /\ idx[r] = 2
        /\ Current(r) \in Range(txLedger[r])

\* RELEASE SAVEPOINT or ROLLBACK TO SAVEPOINT itself has failed in the run.
SavePointFault(r) == error[r] \in {"release", "rollbackSp"}

\* C18: a run holds at most one savepoint; it holds one only from the
\* SAVEPOINT before a migration's SQL until the RELEASE after it, or, when
\* the SQL failed, until the commit that follows ROLLBACK TO SAVEPOINT; so
\* none is open when the next migration begins or when the transaction
\* ends (unless a statement on the savepoint itself fails).
C18_OneSavePointPerItem ==
    \A r \in Runs :
        /\ savePoint[r].depth <= 1
        /\ pc[r] = "sql" => savePoint[r].depth = 1 /\ ~savePoint[r].rolledBack
        /\ ~SavePointFault(r)
            => /\ savePoint[r].depth = 1
                    => pc[r] \in {"sql", "release", "rollbackSp", "failCommit"}
               /\ pc[r] = "failCommit" => savePoint[r].rolledBack
               /\ pc[r] \in {"wrapCommit", "wrapCatch", "idle"}
                    => savePoint[r].depth = 0

\* The SQL of the second migration failed and its savepoint was rolled back
\* to, after the savepoint of the first had been released.
C18_Witness ==
    \E r \in Runs :
        /\ pc[r] = "failCommit" /\ idx[r] = 2
        /\ savePoint[r].depth = 1 /\ savePoint[r].rolledBack

\* C19: a call opens its transaction only after model_.sync() has made the
\* table, asks for the lock only inside the transaction, and computes its
\* pending / recent set only while it holds the lock in that transaction,
\* from the ledger as the lock holder sees it.
C19_EnsureBeginLockThenSet ==
    [][\A r \in Runs :
        /\ (pc'[r] = "begin" /\ pc[r] # "begin") => pc[r] = "ensure" /\ tableExists'
        /\ (pc'[r] = "lock" /\ pc[r] # "lock")
              => pc[r] = "begin" /\ tableExists /\ r \in inTx' /\ r \notin locks'
        /\ (pc'[r] \in {"pending", "recent"} /\ pc[r] # pc'[r])
              => pc[r] = "lock" /\ r \in inTx /\ r \in locks' /\ r \notin locks
        /\ (list'[r] # list[r] /\ pc'[r] # "idle")
              => /\ pc[r] \in {"pending", "recent"}
                 /\ tableExists /\ r \in inTx /\ locks = {r}
                 /\ finished[r] = "open"
                 /\ txLedger[r] = ledger]_vars

\* A down() has computed its set while an up() waits for the lock.
C19_Witness ==
    \E r, q \in Runs :
        /\ r # q
        /\ pc[r] = "savePath" /\ op[r] = "down" /\ list[r] # <<>>
        /\ pc[q] = "lock" /\ op[q] = "up"

\* The call of r read the directory and the ledger without a failure.
SetComputed(r) == firstError[r] \notin {"readdir", "findAll"}

\* C20: when nothing is pending (nothing can be undone) the call goes
\* straight to the commit without an error, and the commit finds no search
\* path snapshot, no savepoint and no executed SQL, leaves the ledger as it
\* was and releases the lock.
C20_EmptySetIsNoOp ==
    [][\A r \in Runs :
        /\ (pc[r] \in {"pending", "recent"} /\ pc'[r] # pc[r] /\ list'[r] = <<>>
                /\ SetComputed(r)')
              => pc'[r] = "wrapCommit" /\ error'[r] = NoError
        /\ (pc[r] = "wrapCommit" /\ list[r] = <<>> /\ pc'[r] = "idle")
              => /\ error[r] = NoError
                 /\ snapshot[r] = Null /\ searchPath_'[inst[r]] = searchPath_[inst[r]]
                 /\ savePoint[r].depth = 0
                 /\ sqlLog[r] = <<>>
                 /\ ledger' = before[r] /\ ledger' = ledger /\ schema' = schema
                 /\ r \in locks /\ r \notin locks' /\ r \notin inTx']_vars

\* A down() on an empty ledger is about to commit.
C20_Witness ==
    \E r \in Runs :
        /\ pc[r] = "wrapCommit" /\ op[r] = "down" /\ list[r] = <<>>
        /\ before[r] = <<>> /\ r \in locks

\* The file of migration m holds the SQL section that the call of r needs.
HasSection(r, m) ==
    /\ files[m] # NoFile
    /\ IF op[r] = "up"
       THEN migrationSqlParse(files[m]).up # <<>>
       ELSE migrationSqlParse(files[m]).hasDown

\* Steps of the loop that follow the check of the section.
AfterSectionCheck == {"savepoint", "sql", "rollbackSp", "release", "save", "destroy"}

\* C21: no savepoint, SQL or ledger write is reached for a migration whose
\* file lacks the section the direction needs; the run that finds the
\* section missing is thrown out of the loop with no savepoint open, with
\* SQL executed and ledger rows written for the items before it only, and
\* its transaction still open for the rollback.
C21_MissingSectionBeforeDatabase ==
    \A r \in Runs :
        /\ pc[r] \in AfterSectionCheck => HasSection(r, Current(r))
        /\ (pc[r] = "wrapCatch" /\ firstError[r] \in {"missingUp", "missingDown"})
            => /\ ~HasSection(r, Current(r))
               /\ error[r] = firstError[r]
               /\ savePoint[r].depth = 0
               /\ sqlLog[r] = DoneItems(r)
               /\ txLedger[r] = LedgerWithDone(r)
               /\ finished[r] = "open" /\ ledger = before[r]

\* The second pending migration of an up() has no up SQL; the first has
\* been executed.
C21_Witness ==
    \E r \in Runs :
        /\ pc[r] = "wrapCatch" /\ op[r] = "up" /\ firstError[r] = "missingUp"
        /\ idx[r] = 2 /\ sqlLog[r] = <<list[r][1]>>

\* C22: a Migrator on which no call is in progress holds no search path
\* snapshot.
C22_NoSnapshotBetweenRuns ==
    \A i \in Runs :
        (\A r \in Runs : inst[r] = i => pc[r] = "idle") => searchPath_[i] = Null

\* C25: called with null or the empty string as delimiter, the parser
\* returns for every valid text what it returns with the delimiter left out.
C25_FalsyDelimiterIsDefault ==
    (returned # NotCalled /\ optDelimiter \in {JsNull, Str(<<>>)}
        /\ migrationSql.type = "string" /\ migrationSql.chars # <<>>)
    => returned = parse(migrationSql, JsUndefined)

\* Steps of a call between its snapshot and the restore of the search path.
HoldsSnapshot == {"setSchema", "parse", "savepoint", "sql", "release", "save",
                  "destroy", "restorePath"}

\* C24: from the snapshot of a run to its restore, the field of the shared
\* Migrator holds the value that run read, so the run restores the search
\* path of its session to its own snapshot.
C24_RestoresOwnSnapshot ==
    [][\A r \in Runs :
        /\ pc[r] \in HoldsSnapshot => searchPath_[inst[r]] = snapshot[r]
        /\ (pc[r] = "restorePath" /\ pc'[r] = "clearPath")
              => snapshot[r] # Null /\ sessPath'[r] = snapshot[r]]_vars

\* Two calls overlap on the one Migrator: one is about to restore the path of
\* its session, which is not the fresh one; the other waits for the lock.
C24_Witness ==
    \E r, q \in Runs :
        /\ r # q /\ inst[r] = inst[q]
        /\ pc[r] = "restorePath" /\ snapshot[r] = kOtherPath
        /\ pc[q] = "lock"

\* C23: every call that was made ends, resolved or rejected, and a call
\* that waits for the lock gets it (unless its LOCK TABLE statement fails).
C23_CallsEndAndLockIsGranted ==
    \A r \in Runs :
        /\ Active(r) ~> (pc[r] = "idle")
        /\ (pc[r] = "lock") ~> (r \in locks \/ error[r] = "lock")

\* An up() waits for the lock that a down() holds in the middle of its loop.
C23_Witness ==
    \E r, q \in Runs :
        /\ r # q
        /\ pc[q] = "lock" /\ op[q] = "up"
        /\ r \in locks /\ op[r] = "down" /\ pc[r] = "sql"

====
